---- MODULE Spec2Model ----
(***************************************************************************)
(* A model of the ouroboros `self_referencing` attribute macro             *)
(* (src/ouroboros_macro/src/lib.rs) and of the code it generates.          *)
(*                                                                         *)
(* The first half of a behaviour is one pass of the macro over a struct    *)
(* definition: the fields are read in declaration order, the tokens of a   *)
(* field's #[borrows(...)] attribute are consumed one at a time by the     *)
(* loop of handle_borrows_attr, and the rest of self_referencing_impl      *)
(* either emits the generated items or fails with one diagnostic.          *)
(* The second half runs the emitted code: a constructor (new or            *)
(* try_new_or_recover) statement by statement, then the accessors, then    *)
(* the default drop or into_heads.                                         *)
(*                                                                         *)
(* Indices are 1-based here: field k of the model is field k-1 of the      *)
(* Rust vectors, and a missing index (None) is 0.                          *)
(***************************************************************************)
EXTENDS Integers, Sequences, FiniteSets, TLC

\* Bounds of the model.
MaxFields == 3
MaxTokens == 4
MaxBorrows == 2

VARIABLES
    shape,              \* Fields::Named / Unnamed / Unit of the input struct
    chain_hack,         \* do_chain_hack
    pc,                 \* position of the pass
    field_info,         \* Vec<StructFieldInfo> built by create_actual_struct
    borrows,            \* Vec<BorrowRequest> of the field being read
    borrow_mut,         \* handle_borrows_attr: borrow_mut
    waiting_for_comma,  \* handle_borrows_attr: waiting_for_comma
    ntok,               \* tokens of the current attribute consumed so far
    tok,                \* the token consumed by the last loop iteration
    diag,               \* the Error returned by the pass, "none" if none
    output,             \* the emitted items, NoOutput until the pass succeeds
    rt,                 \* position of the generated code
    ip,                 \* next statement of the running constructor / into_heads
    written,            \* fields written into the MaybeUninit storage
    local_ref,          \* the constructor's X_illegal_static_reference locals
    held,               \* references held by each field's value
    dropped,            \* fields whose value has been dropped
    moved_out,          \* fields moved out of the struct (into a Heads value)
    outstanding,        \* per accessor, its invocations whose references are live
    error,              \* the field whose builder produced the Err returned, 0 if none
    ctor_args,          \* the running constructor's caller (a builder struct's
                        \* build function, until the constructor's body starts) and,
                        \* per parameter, the field whose input it was given
    attr,               \* the tokens of one whole borrows attribute (SpecBorrowsAttr)
    def_tokens,         \* the tokens of a struct definition (SpecReplaceThis)
    static_tokens       \* what replace_this_with_static made of them

passVars == <<shape, chain_hack, pc, field_info, borrows, borrow_mut,
              waiting_for_comma, ntok, tok, diag, output>>
runVars == <<rt, ip, written, local_ref, held, dropped, moved_out, outstanding,
             error, ctor_args>>
auxVars == <<attr, def_tokens, static_tokens>>
vars == <<shape, chain_hack, pc, field_info, borrows, borrow_mut,
          waiting_for_comma, ntok, tok, diag, output,
          rt, ip, written, local_ref, held, dropped, moved_out, outstanding,
          error, ctor_args, attr, def_tokens, static_tokens>>

----------------------------------------------------------------------------
\* Inputs of the pass.

\* The name of the k-th declared field.
FieldNames == <<"a", "b", "c", "d", "e", "f">>
FieldName(k) == FieldNames[k]

\* Declared types: a Box<T>, and another StableDeref container.
TypeShapes == {"Box<T>", "Rc<T>"}

Ident(s) == [kind |-> "ident", text |-> s]
Punct(s) == [kind |-> "punct", text |-> s]
NoToken == [kind |-> "none", text |-> ""]

\* The token trees an attribute's group may hold: `mut`, the names of the
\* fields the struct may declare, a name no field has, a comma, another
\* punctuation character and a literal.
Tokens ==
    {Ident("mut"), Ident("z"), Punct(","), Punct(";"), [kind |-> "literal", text |-> "1"]}
    \cup {Ident(FieldName(k)) : k \in 1..MaxFields}

----------------------------------------------------------------------------
\* enum FieldType
FieldType == {"Tail", "Borrowed", "BorrowedMut"}

is_tail(field_type) == field_type = "Tail"

BorrowRequest(index, mutable) == [index |-> index, mutable |-> mutable]

StructFieldInfo(name, typ, field_type, bs) ==
    [name |-> name, typ |-> typ, field_type |-> field_type, borrows |-> bs]

\* Diagnostics (the messages of the Errors the pass returns).
NoError == "none"
ErrInvalidSyntax == "Invalid syntax for borrows() macro."
ErrExpectedComma == "Expected comma."
ErrDoubleMut == "Unexpected double 'mut'"
ErrUnknownIdent == "Unknown identifier"
ErrMutAfterImm == "Cannot borrow mutably, this field was previously borrowed immutably."
ErrMutTwice == "Cannot borrow mutably twice."
ErrImmAfterMut == "Cannot borrow as immutable as it was previously borrowed mutably."
ErrExtraComma == "Unexpected extra comma."
ErrPunct == "Unexpected punctuation, expected comma or identifier."
ErrToken == "Unexpected token, expected comma or identifier."
ErrTuple == "Tuple structs are not supported yet."
ErrUnit == "Unit structs cannot be self-referential."
ErrTwoFields == "Self-referencing structs must have at least 2 fields."
ErrAllTail == "Self-referencing struct cannot be made entirely of tail fields"
ErrNotBox == "Borrowed fields must be of type Box<T> when chain_hack is used."

\* field_info.iter().position(|item| item.name == istr), 0 for None.
Position(fi, istr) ==
    LET hits == {k \in 1..Len(fi) : fi[k].name = istr}
    IN  IF hits = {} THEN 0 ELSE CHOOSE k \in hits : \A j \in hits : k <= j

\* The loop body of handle_borrows_attr with one of its checks left out:
\* `without` is the Error that is never returned.  Where the unknown-identifier
\* check is left out the identifier is skipped.
borrows_loop_without(fi, bs, bm, wfc, token, without) ==
    LET st == [field_info |-> fi, borrows |-> bs, borrow_mut |-> bm,
               waiting_for_comma |-> wfc, err |-> NoError]
        Fail(e) == [st EXCEPT !.err = e]
        Push(index, ft) ==
            [field_info |-> [fi EXCEPT ![index].field_type = ft],
             borrows |-> Append(bs, BorrowRequest(index, bm)),
             borrow_mut |-> FALSE,
             waiting_for_comma |-> TRUE,
             err |-> NoError]
        Is(index, ft, e) == fi[index].field_type = ft /\ without # e
    IN  IF token.kind = "ident" THEN
            IF wfc THEN Fail(ErrExpectedComma)
            ELSE IF token.text = "mut" THEN
                IF bm THEN Fail(ErrDoubleMut)
                ELSE [st EXCEPT !.borrow_mut = TRUE]
            ELSE
                LET index == Position(fi, token.text)
                IN  IF index = 0 THEN
                        IF without = ErrUnknownIdent
                        THEN [st EXCEPT !.borrow_mut = FALSE, !.waiting_for_comma = TRUE]
                        ELSE Fail(ErrUnknownIdent)
                    ELSE IF bm THEN
                        IF Is(index, "Borrowed", ErrMutAfterImm) THEN Fail(ErrMutAfterImm)
                        ELSE IF Is(index, "BorrowedMut", ErrMutTwice) THEN Fail(ErrMutTwice)
                        ELSE Push(index, "BorrowedMut")
                    ELSE
                        IF Is(index, "BorrowedMut", ErrImmAfterMut) THEN Fail(ErrImmAfterMut)
                        ELSE Push(index, "Borrowed")
        ELSE IF token.kind = "punct" THEN
            IF token.text = "," THEN
                IF wfc THEN [st EXCEPT !.waiting_for_comma = FALSE]
                ELSE Fail(ErrExtraComma)
            ELSE Fail(ErrPunct)
        ELSE Fail(ErrToken)

\* Faulty variants of handle_borrows_attr.
handle_borrows_attr_skips_unknown(fi, bs, bm, wfc, token) ==
    borrows_loop_without(fi, bs, bm, wfc, token, ErrUnknownIdent)

handle_borrows_attr_allows_mut_twice(fi, bs, bm, wfc, token) ==
    borrows_loop_without(fi, bs, bm, wfc, token, ErrMutTwice)

handle_borrows_attr_allows_imm_after_mut(fi, bs, bm, wfc, token) ==
    borrows_loop_without(fi, bs, bm, wfc, token, ErrImmAfterMut)

handle_borrows_attr_allows_mut_after_imm(fi, bs, bm, wfc, token) ==
    borrows_loop_without(fi, bs, bm, wfc, token, ErrMutAfterImm)

\* One iteration of the token loop of handle_borrows_attr: the state of the
\* loop after `token`, with err the Error returned, if any.
handle_borrows_attr(fi, bs, bm, wfc, token) ==
    LET st == [field_info |-> fi, borrows |-> bs, borrow_mut |-> bm,
               waiting_for_comma |-> wfc, err |-> NoError]
        Fail(e) == [st EXCEPT !.err = e]
        Push(index, ft) ==
            [field_info |-> [fi EXCEPT ![index].field_type = ft],
             borrows |-> Append(bs, BorrowRequest(index, bm)),
             borrow_mut |-> FALSE,
             waiting_for_comma |-> TRUE,
             err |-> NoError]
    IN  IF token.kind = "ident" THEN
            IF wfc THEN Fail(ErrExpectedComma)
            ELSE IF token.text = "mut" THEN
                IF bm THEN Fail(ErrDoubleMut)
                ELSE [st EXCEPT !.borrow_mut = TRUE]
            ELSE
                LET index == Position(fi, token.text)
                IN  IF index = 0 THEN Fail(ErrUnknownIdent)
                    ELSE IF bm THEN
                        IF fi[index].field_type = "Borrowed" THEN Fail(ErrMutAfterImm)
                        ELSE IF fi[index].field_type = "BorrowedMut" THEN Fail(ErrMutTwice)
                        ELSE Push(index, "BorrowedMut")
                    ELSE
                        IF fi[index].field_type = "BorrowedMut" THEN Fail(ErrImmAfterMut)
                        ELSE Push(index, "Borrowed")
        ELSE IF token.kind = "punct" THEN
            IF token.text = "," THEN
                IF wfc THEN [st EXCEPT !.waiting_for_comma = FALSE]
                ELSE Fail(ErrExtraComma)
            ELSE Fail(ErrPunct)
        ELSE Fail(ErrToken)

----------------------------------------------------------------------------
\* Helpers on sequences.

Reverse(s) == [k \in 1..Len(s) |-> s[Len(s) + 1 - k]]

Indices(fi) == [k \in 1..Len(fi) |-> k]

RECURSIVE Concat(_)
Concat(ss) == IF ss = <<>> THEN <<>> ELSE Head(ss) \o Concat(Tail(ss))

----------------------------------------------------------------------------
\* The generated code, as data.  A statement of a generated function body:
\*   uninit       let mut result = MaybeUninit::<Self>::uninit();
\*   call         let FIELD = FIELD_builder(ARGS_illegal_static_reference...);
\*                in try_new_or_recover a match that returns
\*                Err((err, Heads { recover })) when the builder fails
\*   write        (&mut (*result.as_mut_ptr()).FIELD as *mut _).write(FIELD);
\*   ref          let FIELD_illegal_static_reference = unsafe { ... };
\*   assume_init  unsafe { result.assume_init() }
\*   move         let FIELD = self.FIELD;
\*   drop         ::core::mem::drop(self.FIELD);
Stmt(op, field, args, mutable, recover) ==
    [op |-> op, field |-> field, args |-> args, mutable |-> mutable, recover |-> recover]

\* A member of a Heads { ... } expression: the value is read out of the
\* storage (ptr::read) or is the constructor's own argument.
HeadRecover(field, from) == [field |-> field, from |-> from]

\* A reference handed out: to the field itself or to the contents it derefs
\* to, shared (&) or exclusive (&mut).
RefTo(field, what, kind) == [field |-> field, what |-> what, kind |-> kind]

\* A generated accessor: fn NAME(&self | &mut self, user: FnOnce(gives...)).
Accessor(fn, field, recv, gives) ==
    [fn |-> fn, field |-> field, recv |-> recv, gives |-> gives]

\* Faulty variant of deref_type: with chain_hack the type is used as it is
\* when it is not a Box<T>.
deref_type_accepts_any(field_type, do_chain_hack) ==
    IF do_chain_hack THEN
        IF field_type = "Box<T>" THEN [err |-> NoError, ty |-> "T"]
        ELSE [err |-> NoError, ty |-> field_type]
    ELSE [err |-> NoError, ty |-> "Deref::Target"]

\* deref_type: the type a borrowed field's contents have.
deref_type(field_type, do_chain_hack) ==
    IF do_chain_hack THEN
        IF field_type = "Box<T>" THEN [err |-> NoError, ty |-> "T"]
        ELSE [err |-> ErrNotBox, ty |-> ""]
    ELSE [err |-> NoError, ty |-> "Deref::Target"]

\* make_constructor_arg_type_impl: Plain for a field that borrows nothing,
\* else the FnOnce bound with one parameter per borrow, &mut iff the borrow
\* is mutable; the first deref_type error is returned.
make_constructor_arg_type_impl(for_field, other_fields, do_chain_hack) ==
    IF for_field.borrows = <<>> THEN
        [err |-> NoError, kind |-> "Plain", params |-> <<>>]
    ELSE
        LET bad == {k \in 1..Len(for_field.borrows) :
                       deref_type(other_fields[for_field.borrows[k].index].typ,
                                  do_chain_hack).err # NoError}
        IN  IF bad # {} THEN [err |-> ErrNotBox, kind |-> "TraitBound", params |-> <<>>]
            ELSE [err |-> NoError, kind |-> "TraitBound",
                  params |-> [k \in 1..Len(for_field.borrows) |->
                                 [index |-> for_field.borrows[k].index,
                                  mutable |-> for_field.borrows[k].mutable]]]

\* Faulty variant of make_ref_code: the reference to a Borrowed field is made
\* with change_lifetime_mut as well.
make_ref_code_always_mut(fi, i) ==
    IF fi[i].field_type = "Borrowed" THEN <<Stmt("ref", i, <<>>, TRUE, <<>>)>>
    ELSE IF fi[i].field_type = "BorrowedMut" THEN <<Stmt("ref", i, <<>>, TRUE, <<>>)>>
    ELSE <<>>

\* The X_illegal_static_reference statement pushed after the write of a
\* borrowed field, by its role.
make_ref_code(fi, i) ==
    IF fi[i].field_type = "Borrowed" THEN <<Stmt("ref", i, <<>>, FALSE, <<>>)>>
    ELSE IF fi[i].field_type = "BorrowedMut" THEN <<Stmt("ref", i, <<>>, TRUE, <<>>)>>
    ELSE <<>>

\* Faulty variant of builder_args: the references are passed in the reverse
\* of the order the borrows were declared in.
builder_args_reversed(field) ==
    [k \in 1..Len(field.borrows) |->
        field.borrows[Len(field.borrows) + 1 - k].index]

\* builder_args: one X_illegal_static_reference per borrow, in order.
builder_args(field) == [k \in 1..Len(field.borrows) |-> field.borrows[k].index]

\* Faulty variant of new_field_code: the field is written to the storage
\* before its builder is called.
new_field_code_write_first(fi, i) ==
    <<Stmt("write", i, <<>>, FALSE, <<>>)>>
    \o (IF fi[i].borrows = <<>> THEN <<>>
        ELSE <<Stmt("call", i, builder_args(fi[i]), FALSE, <<>>)>>)
    \o make_ref_code(fi, i)

\* The statements create_builder_and_constructor pushes for field i.
new_field_code(fi, i) ==
    (IF fi[i].borrows = <<>> THEN <<>>
     ELSE <<Stmt("call", i, builder_args(fi[i]), FALSE, <<>>)>>)
    \o <<Stmt("write", i, <<>>, FALSE, <<>>)>>
    \o make_ref_code(fi, i)

\* Faulty variant of create_builder_and_constructor: build() passes the
\* fields of the builder struct to new() in the opposite order.
create_builder_and_constructor_names_reversed(fi, do_chain_hack) ==
    LET arg(i) == make_constructor_arg_type_impl(fi[i], fi, do_chain_hack)
        bad == {i \in 1..Len(fi) : arg(i).err # NoError}
    IN  IF bad # {} THEN [err |-> ErrNotBox, code |-> <<>>, params |-> <<>>,
                          builder_struct_field_names |-> <<>>]
        ELSE [err |-> NoError,
              code |-> <<Stmt("uninit", 0, <<>>, FALSE, <<>>)>>
                       \o Concat([i \in 1..Len(fi) |-> new_field_code(fi, i)])
                       \o <<Stmt("assume_init", 0, <<>>, FALSE, <<>>)>>,
              params |-> [i \in 1..Len(fi) |->
                             [field |-> i, kind |-> arg(i).kind, params |-> arg(i).params]],
              builder_struct_field_names |-> [i \in 1..Len(fi) |->
                             [field |-> Len(fi) + 1 - i,
                              kind |-> arg(Len(fi) + 1 - i).kind]]]

\* create_builder_and_constructor: the body of new(), its parameters and the
\* fields of the builder struct, or the first error of the loop.
create_builder_and_constructor(fi, do_chain_hack) ==
    LET arg(i) == make_constructor_arg_type_impl(fi[i], fi, do_chain_hack)
        bad == {i \in 1..Len(fi) : arg(i).err # NoError}
    IN  IF bad # {} THEN [err |-> ErrNotBox, code |-> <<>>, params |-> <<>>,
                          builder_struct_field_names |-> <<>>]
        ELSE [err |-> NoError,
              code |-> <<Stmt("uninit", 0, <<>>, FALSE, <<>>)>>
                       \o Concat([i \in 1..Len(fi) |-> new_field_code(fi, i)])
                       \o <<Stmt("assume_init", 0, <<>>, FALSE, <<>>)>>,
              params |-> [i \in 1..Len(fi) |->
                             [field |-> i, kind |-> arg(i).kind, params |-> arg(i).params]],
              builder_struct_field_names |-> [i \in 1..Len(fi) |->
                             [field |-> i, kind |-> arg(i).kind]]]

\* Faulty variant of initial_head_recover_code: every head starts out as read
\* from the storage.
initial_head_recover_code_from_storage(fi) ==
    LET heads == SelectSeq(Indices(fi), LAMBDA k : fi[k].borrows = <<>>)
    IN  [h \in 1..Len(heads) |-> HeadRecover(heads[h], "storage")]

\* head_recover_code before the loop of create_try_builder_and_constructor:
\* every head field, taken from the constructor's argument.
initial_head_recover_code(fi) ==
    LET heads == SelectSeq(Indices(fi), LAMBDA k : fi[k].borrows = <<>>)
    IN  [h \in 1..Len(heads) |-> HeadRecover(heads[h], "arg")]

\* The loop of create_try_builder_and_constructor with a fault in the Heads
\* expression of the Err arm.  "keeps_args": head_recover_code is never
\* updated, so every head is taken from the constructor's argument.
\* "written_only": the Err arm returns only the heads already read out of
\* the storage.
RECURSIVE try_loop_variant(_, _, _, _)
try_loop_variant(fi, i, acc, fault) ==
    IF i > Len(fi) THEN acc
    ELSE IF fi[i].borrows = <<>> THEN
        try_loop_variant(fi, i + 1,
            [code |-> acc.code \o <<Stmt("write", i, <<>>, FALSE, <<>>)>>
                      \o make_ref_code(fi, i),
             head_recover_code |->
                 IF fault = "keeps_args" THEN acc.head_recover_code
                 ELSE [acc.head_recover_code EXCEPT ![acc.current_head_index] =
                          HeadRecover(i, "storage")],
             current_head_index |-> acc.current_head_index + 1], fault)
    ELSE
        try_loop_variant(fi, i + 1,
            [code |-> acc.code
                      \o <<Stmt("call", i, builder_args(fi[i]), FALSE,
                                IF fault = "written_only"
                                THEN SelectSeq(acc.head_recover_code,
                                               LAMBDA h : h.from = "storage")
                                ELSE acc.head_recover_code)>>
                      \o <<Stmt("write", i, <<>>, FALSE, <<>>)>>
                      \o make_ref_code(fi, i),
             head_recover_code |-> acc.head_recover_code,
             current_head_index |-> acc.current_head_index], fault)

try_loop_keeps_args(fi, i, acc) == try_loop_variant(fi, i, acc, "keeps_args")

try_loop_written_only(fi, i, acc) == try_loop_variant(fi, i, acc, "written_only")

\* The loop of create_try_builder_and_constructor from field i on; acc holds
\* or_recover_code, head_recover_code and current_head_index.
RECURSIVE try_loop(_, _, _)
try_loop(fi, i, acc) ==
    IF i > Len(fi) THEN acc
    ELSE IF fi[i].borrows = <<>> THEN
        try_loop(fi, i + 1,
            [code |-> acc.code \o <<Stmt("write", i, <<>>, FALSE, <<>>)>>
                      \o make_ref_code(fi, i),
             head_recover_code |->
                 [acc.head_recover_code EXCEPT ![acc.current_head_index] =
                      HeadRecover(i, "storage")],
             current_head_index |-> acc.current_head_index + 1])
    ELSE
        try_loop(fi, i + 1,
            [code |-> acc.code
                      \o <<Stmt("call", i, builder_args(fi[i]), FALSE, acc.head_recover_code)>>
                      \o <<Stmt("write", i, <<>>, FALSE, <<>>)>>
                      \o make_ref_code(fi, i),
             head_recover_code |-> acc.head_recover_code,
             current_head_index |-> acc.current_head_index])

\* create_try_builder_and_constructor: the body of try_new_or_recover().
create_try_builder_and_constructor(fi, do_chain_hack) ==
    LET arg(i) == make_constructor_arg_type_impl(fi[i], fi, do_chain_hack)
        bad == {i \in 1..Len(fi) : arg(i).err # NoError}
        loop == try_loop(fi, 1,
                    [code |-> <<Stmt("uninit", 0, <<>>, FALSE, <<>>)>>,
                     head_recover_code |-> initial_head_recover_code(fi),
                     current_head_index |-> 1])
    IN  IF bad # {} THEN [err |-> ErrNotBox, code |-> <<>>, params |-> <<>>,
                          builder_struct_field_names |-> <<>>]
        ELSE [err |-> NoError,
              code |-> loop.code \o <<Stmt("assume_init", 0, <<>>, FALSE, <<>>)>>,
              params |-> [i \in 1..Len(fi) |->
                             [field |-> i, kind |-> arg(i).kind, params |-> arg(i).params]],
              builder_struct_field_names |-> [i \in 1..Len(fi) |->
                             [field |-> i, kind |-> arg(i).kind]]]

\* Faulty variant of with_functions_of: a mutably borrowed field gets a
\* contents accessor, as an immutably borrowed one does.
with_functions_of_contents_of_mut(fi, i) ==
    IF fi[i].field_type = "Tail" THEN
        <<Accessor("with_FIELD", i, "shared", <<RefTo(i, "field", "shared")>>),
          Accessor("with_FIELD_mut", i, "excl", <<RefTo(i, "field", "excl")>>)>>
    ELSE
        <<Accessor("with_FIELD_contents", i, "shared", <<RefTo(i, "contents", "shared")>>)>>

\* Faulty variant of with_functions_of: an immutably borrowed field gets the
\* accessors of a tail field.
with_functions_of_borrowed_as_tail(fi, i) ==
    IF fi[i].field_type \in {"Tail", "Borrowed"} THEN
        <<Accessor("with_FIELD", i, "shared", <<RefTo(i, "field", "shared")>>),
          Accessor("with_FIELD_mut", i, "excl", <<RefTo(i, "field", "excl")>>)>>
    ELSE <<>>

\* Faulty variant of with_functions_of: a tail field gets no with_FIELD_mut.
with_functions_of_read_only(fi, i) ==
    IF fi[i].field_type = "Tail" THEN
        <<Accessor("with_FIELD", i, "shared", <<RefTo(i, "field", "shared")>>)>>
    ELSE IF fi[i].field_type = "Borrowed" THEN
        <<Accessor("with_FIELD_contents", i, "shared", <<RefTo(i, "contents", "shared")>>)>>
    ELSE <<>>

\* The accessors make_with_functions pushes for field i.
with_functions_of(fi, i) ==
    IF fi[i].field_type = "Tail" THEN
        <<Accessor("with_FIELD", i, "shared", <<RefTo(i, "field", "shared")>>),
          Accessor("with_FIELD_mut", i, "excl", <<RefTo(i, "field", "excl")>>)>>
    ELSE IF fi[i].field_type = "Borrowed" THEN
        <<Accessor("with_FIELD_contents", i, "shared", <<RefTo(i, "contents", "shared")>>)>>
    ELSE <<>>

\* make_with_functions: the per-field accessors, in declaration order.
make_with_functions(fi, do_chain_hack) ==
    LET bad == {i \in 1..Len(fi) : /\ fi[i].field_type = "Borrowed"
                                   /\ deref_type(fi[i].typ, do_chain_hack).err # NoError}
    IN  IF bad # {} THEN [err |-> ErrNotBox, users |-> <<>>]
        ELSE [err |-> NoError,
              users |-> Concat([i \in 1..Len(fi) |-> with_functions_of(fi, i)])]

\* Faulty variant of with_all_fields_of: every field that is not a tail gets a
\* contents member.
with_all_fields_of_any_borrowed(fi, i) ==
    IF fi[i].field_type = "Tail" THEN <<RefTo(i, "field", "shared")>>
    ELSE <<RefTo(i, "contents", "shared")>>

\* The members make_with_all_function gives BorrowedFields for field i.
with_all_fields_of(fi, i) ==
    IF fi[i].field_type = "Tail" THEN <<RefTo(i, "field", "shared")>>
    ELSE IF fi[i].field_type = "Borrowed" THEN <<RefTo(i, "contents", "shared")>>
    ELSE <<>>

\* Faulty variant of with_all_mut_fields_of: an immutably borrowed field gets a
\* member of BorrowedMutFields too.
with_all_mut_fields_of_borrowed_too(fi, i) ==
    IF fi[i].field_type \in {"Tail", "Borrowed"} THEN <<RefTo(i, "field", "excl")>>
    ELSE <<>>

\* The members make_with_all_function gives BorrowedMutFields for field i.
with_all_mut_fields_of(fi, i) ==
    IF fi[i].field_type = "Tail" THEN <<RefTo(i, "field", "excl")>>
    ELSE <<>>

\* make_with_all_function: the members of BorrowedFields and BorrowedMutFields
\* (fields visited in reverse) and the with / with_mut functions.
make_with_all_function(fi, do_chain_hack) ==
    LET bad == {i \in 1..Len(fi) : /\ fi[i].field_type = "Borrowed"
                                   /\ deref_type(fi[i].typ, do_chain_hack).err # NoError}
        rev == Reverse(Indices(fi))
        fields == Concat([k \in 1..Len(fi) |-> with_all_fields_of(fi, rev[k])])
        mut_fields == Concat([k \in 1..Len(fi) |-> with_all_mut_fields_of(fi, rev[k])])
    IN  IF bad # {} THEN [err |-> ErrNotBox, fields |-> <<>>, mut_fields |-> <<>>,
                          fns |-> <<>>]
        ELSE [err |-> NoError, fields |-> fields, mut_fields |-> mut_fields,
              fns |-> <<Accessor("with", 0, "shared", fields),
                        Accessor("with_mut", 0, "excl", mut_fields)>>]

\* Faulty variant of make_into_heads: the fields that nothing borrows are
\* taken for the heads.
make_into_heads_moves_tails(fi) ==
    LET rev == Reverse(Indices(fi))
    IN  [code |-> [k \in 1..Len(fi) |->
                      IF fi[rev[k]].field_type = "Tail"
                      THEN Stmt("move", rev[k], <<>>, FALSE, <<>>)
                      ELSE Stmt("drop", rev[k], <<>>, FALSE, <<>>)],
         field_names |-> SelectSeq(rev, LAMBDA k : fi[k].field_type = "Tail")]

\* Faulty variant of make_into_heads: the fields are visited in declaration
\* order.
make_into_heads_forward(fi) ==
    LET fwd == Indices(fi)
    IN  [code |-> [k \in 1..Len(fi) |->
                      IF fi[fwd[k]].borrows = <<>>
                      THEN Stmt("move", fwd[k], <<>>, FALSE, <<>>)
                      ELSE Stmt("drop", fwd[k], <<>>, FALSE, <<>>)],
         field_names |-> SelectSeq(fwd, LAMBDA k : fi[k].borrows = <<>>)]

\* make_into_heads: the body of into_heads() and the fields of Heads.
make_into_heads(fi) ==
    LET rev == Reverse(Indices(fi))
    IN  [code |-> [k \in 1..Len(fi) |->
                      IF fi[rev[k]].borrows = <<>>
                      THEN Stmt("move", rev[k], <<>>, FALSE, <<>>)
                      ELSE Stmt("drop", rev[k], <<>>, FALSE, <<>>)],
         field_names |-> SelectSeq(rev, LAMBDA k : fi[k].borrows = <<>>)]

\* Faulty variant of actual_struct_fields: the declared order is kept.
actual_struct_fields_not_reversed(fi) == Indices(fi)

\* Faulty variant of actual_struct_fields: the declared order rotated by one.
actual_struct_fields_rotated(fi) == [k \in 1..Len(fi) |-> (k % Len(fi)) + 1]

\* The field order of the struct create_actual_struct emits: the declared
\* fields reversed.
actual_struct_fields(fi) == Reverse(Indices(fi))

NoOutput == [emitted |-> FALSE]

\* self_referencing_impl with one of the checks at the end of
\* create_actual_struct left out: `without` is the Error never returned.
impl_without(fi, do_chain_hack, without) ==
    LET ctor == create_builder_and_constructor(fi, do_chain_hack)
        try == create_try_builder_and_constructor(fi, do_chain_hack)
        users == make_with_functions(fi, do_chain_hack)
        all == make_with_all_function(fi, do_chain_hack)
        heads == make_into_heads(fi)
        Err(e) == [err |-> e, out |-> NoOutput]
    IN  IF Len(fi) < 2 /\ without # ErrTwoFields THEN Err(ErrTwoFields)
        ELSE IF /\ \A k \in 1..Len(fi) : is_tail(fi[k].field_type)
                /\ without # ErrAllTail
             THEN Err(ErrAllTail)
        ELSE IF ctor.err # NoError THEN Err(ctor.err)
        ELSE IF try.err # NoError THEN Err(try.err)
        ELSE IF users.err # NoError THEN Err(users.err)
        ELSE IF all.err # NoError THEN Err(all.err)
        ELSE [err |-> NoError,
              out |-> [emitted |-> TRUE,
                       actual_struct |-> actual_struct_fields(fi),
                       new |-> ctor.code,
                       new_params |-> ctor.params,
                       builder |-> ctor.builder_struct_field_names,
                       try_new_or_recover |-> try.code,
                       try_params |-> try.params,
                       try_builder |-> try.builder_struct_field_names,
                       users |-> users.users,
                       fields |-> all.fields,
                       mut_fields |-> all.mut_fields,
                       with_all |-> all.fns,
                       into_heads |-> heads.code,
                       heads |-> heads.field_names]]

\* Faulty variants of self_referencing_impl.
self_referencing_impl_accepts_all_tail(fi, do_chain_hack) ==
    impl_without(fi, do_chain_hack, ErrAllTail)

self_referencing_impl_accepts_one_field(fi, do_chain_hack) ==
    impl_without(fi, do_chain_hack, ErrTwoFields)

\* self_referencing_impl after the fields have been read: the checks at the
\* end of create_actual_struct, then every generator; the first Error, or the
\* generated items.
self_referencing_impl(fi, do_chain_hack) ==
    LET ctor == create_builder_and_constructor(fi, do_chain_hack)
        try == create_try_builder_and_constructor(fi, do_chain_hack)
        users == make_with_functions(fi, do_chain_hack)
        all == make_with_all_function(fi, do_chain_hack)
        heads == make_into_heads(fi)
        Err(e) == [err |-> e, out |-> NoOutput]
    IN  IF Len(fi) < 2 THEN Err(ErrTwoFields)
        ELSE IF \A k \in 1..Len(fi) : is_tail(fi[k].field_type) THEN Err(ErrAllTail)
        ELSE IF ctor.err # NoError THEN Err(ctor.err)
        ELSE IF try.err # NoError THEN Err(try.err)
        ELSE IF users.err # NoError THEN Err(users.err)
        ELSE IF all.err # NoError THEN Err(all.err)
        ELSE [err |-> NoError,
              out |-> [emitted |-> TRUE,
                       actual_struct |-> actual_struct_fields(fi),
                       new |-> ctor.code,
                       new_params |-> ctor.params,
                       builder |-> ctor.builder_struct_field_names,
                       try_new_or_recover |-> try.code,
                       try_params |-> try.params,
                       try_builder |-> try.builder_struct_field_names,
                       users |-> users.users,
                       fields |-> all.fields,
                       mut_fields |-> all.mut_fields,
                       with_all |-> all.fns,
                       into_heads |-> heads.code,
                       heads |-> heads.field_names]]

\* No constructor is running.
NoArgs == [via |-> "none", bound |-> <<>>]

----------------------------------------------------------------------------
\* The pass.

Init ==
    /\ shape \in {"named", "unnamed", "unit"}
    /\ chain_hack \in BOOLEAN
    /\ pc = "fields"
    /\ field_info = <<>>
    /\ borrows = <<>>
    /\ borrow_mut = FALSE
    /\ waiting_for_comma = FALSE
    /\ ntok = 0
    /\ tok = NoToken
    /\ diag = NoError
    /\ output = NoOutput
    /\ rt = "idle"
    /\ ip = 0
    /\ written = {}
    /\ local_ref = <<>>
    /\ held = <<>>
    /\ dropped = {}
    /\ moved_out = {}
    /\ outstanding = <<>>
    /\ error = 0
    /\ ctor_args = NoArgs
    /\ attr = <<>>
    /\ def_tokens = <<>>
    /\ static_tokens = <<>>

\* The pass returns Err(e): nothing is emitted.
Fails(e) ==
    /\ diag' = e
    /\ pc' = "failed"
    /\ UNCHANGED <<shape, chain_hack, field_info, borrows, borrow_mut,
                   waiting_for_comma, ntok, output>>

\* create_actual_struct on a tuple or unit struct.
RejectShape ==
    /\ pc = "fields"
    /\ shape # "named"
    /\ Fails(IF shape = "unnamed" THEN ErrTuple ELSE ErrUnit)
    /\ UNCHANGED <<tok>>
    /\ UNCHANGED runVars
    /\ UNCHANGED auxVars

\* The next named field carries no borrows attribute: it is pushed as a Tail
\* that borrows nothing.
PlainField ==
    /\ pc = "fields"
    /\ shape = "named"
    /\ Len(field_info) < MaxFields
    /\ \E typ \in TypeShapes :
          field_info' = Append(field_info,
              StructFieldInfo(FieldName(Len(field_info) + 1), typ, "Tail", <<>>))
    /\ UNCHANGED <<shape, chain_hack, pc, borrows, borrow_mut,
                   waiting_for_comma, ntok, tok, diag, output>>
    /\ UNCHANGED runVars
    /\ UNCHANGED auxVars

\* The next named field carries #[borrows(...)]: handle_borrows_attr starts on
\* the tokens of the group.
BeginBorrows ==
    /\ pc = "fields"
    /\ shape = "named"
    /\ Len(field_info) < MaxFields
    /\ pc' = "tokens"
    /\ borrows' = <<>>
    /\ borrow_mut' = FALSE
    /\ waiting_for_comma' = FALSE
    /\ ntok' = 0
    /\ tok' = NoToken
    /\ UNCHANGED <<shape, chain_hack, field_info, diag, output>>
    /\ UNCHANGED runVars
    /\ UNCHANGED auxVars

\* The next named field carries a borrows attribute whose tokens do not start
\* with a group (#[borrows] or #[borrows = x]).
InvalidSyntax ==
    /\ pc = "fields"
    /\ shape = "named"
    /\ Len(field_info) < MaxFields
    /\ Fails(ErrInvalidSyntax)
    /\ UNCHANGED <<tok>>
    /\ UNCHANGED runVars
    /\ UNCHANGED auxVars

\* One iteration of the loop of handle_borrows_attr.
Token ==
    /\ pc = "tokens"
    /\ ntok < MaxTokens
    /\ \E token \in Tokens :
          LET r == handle_borrows_attr(field_info, borrows, borrow_mut,
                                       waiting_for_comma, token)
          IN  /\ tok' = token
              /\ IF r.err # NoError
                 THEN Fails(r.err)
                 ELSE /\ field_info' = r.field_info
                      /\ borrows' = r.borrows
                      /\ borrow_mut' = r.borrow_mut
                      /\ waiting_for_comma' = r.waiting_for_comma
                      /\ ntok' = ntok + 1
                      /\ UNCHANGED <<shape, chain_hack, pc, diag, output>>
    /\ UNCHANGED runVars
    /\ UNCHANGED auxVars

\* The tokens are exhausted: handle_borrows_attr returns Ok(()) and the field
\* is pushed as a Tail with the borrows collected.
EndBorrows ==
    /\ pc = "tokens"
    /\ \E typ \in TypeShapes :
          field_info' = Append(field_info,
              StructFieldInfo(FieldName(Len(field_info) + 1), typ, "Tail", borrows))
    /\ pc' = "fields"
    /\ borrows' = <<>>
    /\ borrow_mut' = FALSE
    /\ waiting_for_comma' = FALSE
    /\ ntok' = 0
    /\ tok' = NoToken
    /\ UNCHANGED <<shape, chain_hack, diag, output>>
    /\ UNCHANGED runVars
    /\ UNCHANGED auxVars

\* No field is left: the checks at the end of create_actual_struct and the
\* generators run, and the pass emits everything or fails.
Finish ==
    /\ pc = "fields"
    /\ shape = "named"
    /\ LET r == self_referencing_impl(field_info, chain_hack)
       IN  IF r.err # NoError
           THEN Fails(r.err)
           ELSE /\ output' = r.out
                /\ pc' = "emitted"
                /\ UNCHANGED <<shape, chain_hack, field_info, borrows,
                               borrow_mut, waiting_for_comma, ntok, diag>>
    /\ UNCHANGED <<tok>>
    /\ UNCHANGED runVars
    /\ UNCHANGED auxVars

\* The struct has a const generic parameter: create_actual_struct returns Ok
\* and make_generic_arguments panics (unimplemented!), so the macro neither
\* returns items nor a compile_error.
ConstGenericPanic ==
    /\ pc = "fields"
    /\ shape = "named"
    /\ Len(field_info) >= 2
    /\ \E k \in 1..Len(field_info) : ~is_tail(field_info[k].field_type)
    /\ pc' = "panicked"
    /\ UNCHANGED <<shape, chain_hack, field_info, borrows, borrow_mut,
                   waiting_for_comma, ntok, tok, diag, output>>
    /\ UNCHANGED runVars
    /\ UNCHANGED auxVars

----------------------------------------------------------------------------
\* The generated code at run time.

\* The macro runs at compile time and the code it emits at run time: once a
\* program built from the emitted items runs, only `output` is left of the pass.
NumFields == Len(output.actual_struct)

\* The body of the constructor that is running.
Code == IF rt = "new" THEN output.new ELSE output.try_new_or_recover

Constructing == rt \in {"new", "try"}

AtStmt(op) == Constructing /\ ip <= Len(Code) /\ Code[ip].op = op

\* The kind of reference a builder receives from an X_illegal_static_reference
\* local: a &'static mut local is moved into the builder.
LocalKind(l) == IF l = "moved" THEN "excl" ELSE l

\* Every accessor function of the generated impl.
Accessors == output.users \o output.with_all

\* A caller invokes new(...) or try_new_or_recover(...) with one input per
\* parameter, or calls build() or try_build_or_recover() on a builder struct,
\* which passes its fields on in the order of builder_struct_field_names.
Construct ==
    /\ pc = "emitted"
    /\ rt = "idle"
    /\ \E path \in {"new", "try"}, via \in {"direct", "builder"} :
          /\ rt' = path
          /\ ctor_args' =
                [via |-> via,
                 bound |->
                    IF via = "direct" THEN [i \in 1..NumFields |-> i]
                    ELSE LET names == IF path = "new" THEN output.builder
                                      ELSE output.try_builder
                         IN  [i \in 1..Len(names) |-> names[i].field]]
    /\ ip' = 1
    /\ written' = {}
    /\ local_ref' = [k \in 1..NumFields |-> "none"]
    /\ held' = [k \in 1..NumFields |-> <<>>]
    /\ outstanding' = [a \in 1..Len(Accessors) |-> 0]
    /\ pc' = "compiled"
    /\ field_info' = <<>>
    /\ chain_hack' = FALSE
    /\ UNCHANGED <<dropped, moved_out, error>>
    /\ UNCHANGED <<shape, borrows, borrow_mut, waiting_for_comma, ntok,
                   tok, diag, output>>
    /\ UNCHANGED auxVars

\* let mut result = MaybeUninit::<Self>::uninit();
Uninit ==
    /\ AtStmt("uninit")
    /\ ip' = ip + 1
    /\ ctor_args' = [ctor_args EXCEPT !.via = "direct"]
    /\ UNCHANGED <<rt, written, local_ref, held, dropped, moved_out, outstanding, error>>
    /\ UNCHANGED passVars
    /\ UNCHANGED auxVars

\* let FIELD = FIELD_builder(...): the builder returns the field's value, which
\* holds the references it was given (in try_new_or_recover: it returns Ok).
CallBuilder ==
    /\ AtStmt("call")
    /\ LET st == Code[ip]
       IN  /\ held' = [held EXCEPT ![st.field] =
                  [k \in 1..Len(st.args) |->
                      RefTo(st.args[k], "contents", LocalKind(local_ref[st.args[k]]))]]
           /\ local_ref' = [t \in 1..NumFields |->
                  IF local_ref[t] = "excl" /\ \E k \in 1..Len(st.args) : st.args[k] = t
                  THEN "moved" ELSE local_ref[t]]
    /\ ip' = ip + 1
    /\ UNCHANGED <<rt, written, dropped, moved_out, outstanding, error, ctor_args>>
    /\ UNCHANGED passVars
    /\ UNCHANGED auxVars

\* Faulty variant of CallBuilderErr: the Err of the builder is recorded but
\* the constructor goes on with the next statement.
CallBuilderErr_continues ==
    /\ rt = "try"
    /\ AtStmt("call")
    /\ error = 0
    /\ error' = Code[ip].field
    /\ ip' = ip + 1
    /\ UNCHANGED <<rt, written, local_ref, held, dropped, moved_out, outstanding, ctor_args>>
    /\ UNCHANGED passVars
    /\ UNCHANGED auxVars

\* In try_new_or_recover the builder returns Err: the function returns
\* Err((err, Heads { recover })); result is a MaybeUninit and is never dropped.
CallBuilderErr ==
    /\ rt = "try"
    /\ AtStmt("call")
    /\ LET st == Code[ip]
       IN  /\ moved_out' = {st.recover[h].field : h \in 1..Len(st.recover)}
           /\ error' = st.field
    /\ rt' = "err"
    /\ UNCHANGED <<ip, written, local_ref, held, dropped, outstanding>>
    /\ ctor_args' = NoArgs
    /\ UNCHANGED passVars
    /\ UNCHANGED auxVars

\* try_new: try_new_or_recover(...).map_err(|(error, _heads)| error) keeps the
\* error and drops the Heads value.
TryNewMapErr ==
    /\ rt = "err"
    /\ rt' = "err_mapped"
    /\ dropped' = dropped \cup moved_out
    /\ moved_out' = {}
    /\ UNCHANGED <<ip, written, local_ref, held, outstanding, error, ctor_args>>
    /\ UNCHANGED passVars
    /\ UNCHANGED auxVars

\* (&mut (*result.as_mut_ptr()).FIELD as *mut _).write(FIELD);
WriteField ==
    /\ AtStmt("write")
    /\ written' = written \cup {Code[ip].field}
    /\ ip' = ip + 1
    /\ UNCHANGED <<rt, local_ref, held, dropped, moved_out, outstanding, error, ctor_args>>
    /\ UNCHANGED passVars
    /\ UNCHANGED auxVars

\* let FIELD_illegal_static_reference = stable_deref_and_strip_lifetime[_mut](..)
MakeRef ==
    /\ AtStmt("ref")
    /\ local_ref' = [local_ref EXCEPT ![Code[ip].field] =
                        IF Code[ip].mutable THEN "excl" ELSE "shared"]
    /\ ip' = ip + 1
    /\ UNCHANGED <<rt, written, held, dropped, moved_out, outstanding, error, ctor_args>>
    /\ UNCHANGED passVars
    /\ UNCHANGED auxVars

\* unsafe { result.assume_init() }: the constructor returns the struct and its
\* locals go out of scope.
AssumeInit ==
    /\ AtStmt("assume_init")
    /\ rt' = "live"
    /\ ip' = 0
    /\ local_ref' = [k \in 1..NumFields |-> "none"]
    /\ UNCHANGED <<written, held, dropped, moved_out, outstanding, error>>
    /\ ctor_args' = NoArgs
    /\ UNCHANGED passVars
    /\ UNCHANGED auxVars

RECURSIVE Sum(_)
Sum(s) == IF s = <<>> THEN 0 ELSE Head(s) + Sum(Tail(s))

\* The number of borrows of the struct that are live.
NumOutstanding == Sum(outstanding)

\* The borrow rules on the receiver: a &self call needs no &mut self borrow
\* outstanding, a &mut self call needs no borrow outstanding at all.
CanCall(acc) ==
    /\ rt = "live"
    /\ acc.recv = "shared" =>
          \A a \in 1..Len(Accessors) :
              outstanding[a] > 0 => Accessors[a].recv = "shared"
    /\ acc.recv = "excl" => NumOutstanding = 0

\* An accessor is called; the references it hands to `user` live as long as
\* the borrow of the receiver ('outer_borrow).
CallAccessor ==
    /\ rt = "live"
    /\ NumOutstanding < MaxBorrows
    /\ \E a \in 1..Len(Accessors) :
          /\ CanCall(Accessors[a])
          /\ outstanding' = [outstanding EXCEPT ![a] = @ + 1]
    /\ UNCHANGED <<rt, ip, written, local_ref, held, dropped, moved_out, error, ctor_args>>
    /\ UNCHANGED passVars
    /\ UNCHANGED auxVars

\* A borrow of the receiver ends, and the references handed out under it.
EndAccessor ==
    /\ rt = "live"
    /\ \E a \in 1..Len(Accessors) :
          /\ outstanding[a] > 0
          /\ outstanding' = [outstanding EXCEPT ![a] = @ - 1]
    /\ UNCHANGED <<rt, ip, written, local_ref, held, dropped, moved_out, error, ctor_args>>
    /\ UNCHANGED passVars
    /\ UNCHANGED auxVars

\* The struct goes out of scope: the default drop glue starts.
BeginDrop ==
    /\ rt = "live"
    /\ NumOutstanding = 0
    /\ rt' = "dropping"
    /\ ip' = 1
    /\ UNCHANGED <<written, local_ref, held, dropped, moved_out, outstanding, error, ctor_args>>
    /\ UNCHANGED passVars
    /\ UNCHANGED auxVars

\* The drop glue drops the next field, in the order the struct declares them.
DropField ==
    /\ rt = "dropping"
    /\ ip <= Len(output.actual_struct)
    /\ dropped' = dropped \cup {output.actual_struct[ip]}
    /\ ip' = ip + 1
    /\ rt' = IF ip = Len(output.actual_struct) THEN "dropped" ELSE "dropping"
    /\ UNCHANGED <<written, local_ref, held, moved_out, outstanding, error, ctor_args>>
    /\ UNCHANGED passVars
    /\ UNCHANGED auxVars

\* into_heads(self) is called.
BeginIntoHeads ==
    /\ rt = "live"
    /\ NumOutstanding = 0
    /\ rt' = "into_heads"
    /\ ip' = 1
    /\ UNCHANGED <<written, local_ref, held, dropped, moved_out, outstanding, error, ctor_args>>
    /\ UNCHANGED passVars
    /\ UNCHANGED auxVars

\* One statement of into_heads: let FIELD = self.FIELD; or drop(self.FIELD);
IntoHeadsStep ==
    /\ rt = "into_heads"
    /\ ip <= Len(output.into_heads)
    /\ LET st == output.into_heads[ip]
       IN  IF st.op = "move"
           THEN moved_out' = moved_out \cup {st.field} /\ UNCHANGED dropped
           ELSE dropped' = dropped \cup {st.field} /\ UNCHANGED moved_out
    /\ ip' = ip + 1
    /\ rt' = IF ip = Len(output.into_heads) THEN "heads" ELSE "into_heads"
    /\ UNCHANGED <<written, local_ref, held, outstanding, error, ctor_args>>
    /\ UNCHANGED passVars
    /\ UNCHANGED auxVars

Next ==
    \/ RejectShape
    \/ PlainField
    \/ BeginBorrows
    \/ InvalidSyntax
    \/ Token
    \/ EndBorrows
    \/ Finish
    \/ ConstGenericPanic
    \/ Construct
    \/ Uninit
    \/ CallBuilder
    \/ CallBuilderErr
    \/ TryNewMapErr
    \/ WriteField
    \/ MakeRef
    \/ AssumeInit
    \/ CallAccessor
    \/ EndAccessor
    \/ BeginDrop
    \/ DropField
    \/ BeginIntoHeads
    \/ IntoHeadsStep

Spec == Init /\ [][Next]_vars

----------------------------------------------------------------------------
\* handle_borrows_attr over one attribute given as a whole: the tokens of
\* #[borrows(...)] on the last field of a struct whose other fields have no
\* borrows attribute.

\* The token streams of at most n token trees.
TokenStreams(n) == UNION {[1..l -> Tokens] : l \in 0..n}

\* create_actual_struct has pushed n fields without a borrows attribute.
PlainFields(n) ==
    [k \in 1..n |-> StructFieldInfo(FieldName(k), "Box<T>", "Tail", <<>>)]

\* handle_borrows_attr is entered for the attribute of the next field.
InitBorrowsAttr ==
    /\ shape = "named"
    /\ chain_hack = FALSE
    /\ pc = "tokens"
    /\ field_info = PlainFields(MaxFields - 1)
    /\ attr \in TokenStreams(MaxTokens)
    /\ borrows = <<>>
    /\ borrow_mut = FALSE
    /\ waiting_for_comma = FALSE
    /\ ntok = 0
    /\ tok = NoToken
    /\ diag = NoError
    /\ output = NoOutput
    /\ rt = "idle"
    /\ ip = 0
    /\ written = {}
    /\ local_ref = <<>>
    /\ held = <<>>
    /\ dropped = {}
    /\ moved_out = {}
    /\ outstanding = <<>>
    /\ error = 0
    /\ ctor_args = NoArgs
    /\ def_tokens = <<>>
    /\ static_tokens = <<>>

\* One iteration of the loop, on the next token of the attribute.
NextAttrToken ==
    /\ ntok < Len(attr)
    /\ Token
    /\ tok' = attr[ntok + 1]

\* The attribute has no token left.
EndAttr ==
    /\ ntok = Len(attr)
    /\ EndBorrows

NextBorrowsAttr ==
    \/ NextAttrToken
    \/ EndAttr

SpecBorrowsAttr == InitBorrowsAttr /\ [][NextBorrowsAttr]_vars

----------------------------------------------------------------------------
\* replace_this_with_static over the tokens of the struct definition.  A
\* lifetime 'x is the two token trees Punct(') Ident(x); a delimited group is
\* one token tree holding a token stream.

Group(delimiter, stream) == [kind |-> "group", text |-> delimiter, stream |-> stream]

Lifetime(s) == <<Punct("'"), Ident(s)>>

\* The nesting depth of groups and the number of token trees of the
\* definitions rewritten.
MaxDepth == 2
MaxDefTokens == 2

\* The token trees of a definition, with groups nested to depth d: the
\* identifiers `this` and `a`, the quote of a lifetime, and groups holding one
\* token tree or one lifetime.
RECURSIVE DefTokens(_)
DefTokens(d) ==
    LET leaves == {Ident("this"), Ident("a"), Punct("'")}
    IN  IF d = 0 THEN leaves
        ELSE leaves
             \cup {Group("(", <<t>>) : t \in DefTokens(d - 1)}
             \cup {Group("(", Lifetime(x)) : x \in {"this", "a"}}

\* replace_this_with_static: every Ident equal to `this` becomes the Ident
\* `static`, a Group keeps its delimiter and has its stream rewritten, and
\* any other token tree is kept.
RECURSIVE replace_this_with_static(_)
replace_this_token(token) ==
    IF token.kind = "ident" THEN
        IF token.text = "this" THEN Ident("static") ELSE token
    ELSE IF token.kind = "group" THEN
        Group(token.text, replace_this_with_static(token.stream))
    ELSE token

replace_this_with_static(input) ==
    [i \in 1..Len(input) |-> replace_this_token(input[i])]

\* create_actual_struct has quoted the struct definition and calls
\* replace_this_with_static on it.
InitReplaceThis ==
    /\ shape = "named"
    /\ chain_hack = FALSE
    /\ pc = "rewrite"
    /\ def_tokens \in UNION {[1..l -> DefTokens(MaxDepth)] : l \in 0..MaxDefTokens}
    /\ static_tokens = <<>>
    /\ attr = <<>>
    /\ field_info = <<>>
    /\ borrows = <<>>
    /\ borrow_mut = FALSE
    /\ waiting_for_comma = FALSE
    /\ ntok = 0
    /\ tok = NoToken
    /\ diag = NoError
    /\ output = NoOutput
    /\ rt = "idle"
    /\ ip = 0
    /\ written = {}
    /\ local_ref = <<>>
    /\ held = <<>>
    /\ dropped = {}
    /\ moved_out = {}
    /\ outstanding = <<>>
    /\ error = 0
    /\ ctor_args = NoArgs

\* The map over the stream yields the next token tree.
ReplaceThisToken ==
    /\ pc = "rewrite"
    /\ Len(static_tokens) < Len(def_tokens)
    /\ static_tokens' =
          Append(static_tokens, replace_this_token(def_tokens[Len(static_tokens) + 1]))
    /\ UNCHANGED <<def_tokens, attr>>
    /\ UNCHANGED passVars
    /\ UNCHANGED runVars

\* The stream is exhausted and collected.
ReplaceThisCollect ==
    /\ pc = "rewrite"
    /\ Len(static_tokens) = Len(def_tokens)
    /\ pc' = "rewritten"
    /\ UNCHANGED <<shape, chain_hack, field_info, borrows, borrow_mut,
                   waiting_for_comma, ntok, tok, diag, output>>
    /\ UNCHANGED runVars
    /\ UNCHANGED auxVars

NextReplaceThis ==
    \/ ReplaceThisToken
    \/ ReplaceThisCollect

SpecReplaceThis == InitReplaceThis /\ [][NextReplaceThis]_vars

----------------------------------------------------------------------------
\* References outstanding at run time.

\* The references of one kind to field f (or its contents) held by the values
\* of the fields that are alive.
HeldRefs(f, kind) ==
    UNION {{<<i, k>> : k \in {j \in 1..Len(held[i]) :
                                 held[i][j].field = f /\ held[i][j].kind = kind}}
           : i \in (1..NumFields) \ dropped}

\* The references of one kind to field f that one invocation of acc hands out.
GivenRefs(acc, f, kind) ==
    {k \in 1..Len(acc.gives) : acc.gives[k].field = f /\ acc.gives[k].kind = kind}

\* The references of one kind to field f handed out by the accessor
\* invocations that are outstanding.
AccessorRefs(f, kind) ==
    LET accs == Accessors
    IN  IF \A a \in 1..Len(outstanding) : outstanding[a] = 0 THEN 0
        ELSE Sum([a \in 1..Len(accs) |->
                     IF outstanding[a] = 0 THEN 0
                     ELSE outstanding[a] * Cardinality(GivenRefs(accs[a], f, kind))])

\* All references of one kind to field f: the constructor's local, those held
\* by dependent fields and those issued by accessors.
RefCount(f, kind) ==
    (IF local_ref[f] = kind THEN 1 ELSE 0)
    + Cardinality(HeldRefs(f, kind))
    + AccessorRefs(f, kind)

----------------------------------------------------------------------------
\* C1: from the start of construction to the drop or into_heads, every field
\* has at most one exclusive reference outstanding or any number of shared
\* ones, never both, counting the references held by dependent fields and the
\* references issued by accessors.
C1_AliasingXorMutability ==
    rt # "idle" =>
        \A f \in 1..NumFields :
            /\ RefCount(f, "excl") <= 1
            /\ ~(RefCount(f, "excl") >= 1 /\ RefCount(f, "shared") >= 1)

\* A live struct with one field exclusively referenced by a dependent, another
\* one shared between a dependent and an accessor invocation.
C1_Witness ==
    /\ rt = "live"
    /\ \E f, g \in 1..NumFields :
          /\ Cardinality(HeldRefs(f, "excl")) = 1
          /\ Cardinality(HeldRefs(g, "shared")) >= 1
          /\ AccessorRefs(g, "shared") >= 1

\* The fields whose value the constructor's parameter i is built from.
DependenciesOf(params, i) ==
    {params[i].params[k].index : k \in 1..Len(params[i].params)}

\* The parameters of the constructor that is running.
Params == IF rt = "new" THEN output.new_params ELSE output.try_params

\* C2: in new and in try_new_or_recover the fields are written one at a time
\* in declaration order, and when the builder of field i is called every field
\* i borrows has been written and has its X_illegal_static_reference, and no
\* field from i on has been written.
C2_MaterializedInOrder ==
    Constructing =>
        /\ written = 1..Cardinality(written)
        /\ AtStmt("call") =>
              LET i == Code[ip].field
              IN  /\ \A t \in DependenciesOf(Params, i) :
                        t \in written /\ local_ref[t] # "none"
                  /\ \A j \in written : j < i

\* try_new_or_recover is about to call the builder of a field that borrows
\* two fields.
C2_Witness ==
    /\ rt = "try"
    /\ AtStmt("call")
    /\ Cardinality(DependenciesOf(Params, Code[ip].field)) = 2
    /\ written = 1..(Code[ip].field - 1)

\* C3: the default drop never releases a field while a field that holds a
\* reference into it is alive.
C3_DependentsDroppedFirst ==
    rt \in {"dropping", "dropped"} =>
        \A i \in (1..NumFields) \ dropped :
            \A k \in 1..Len(held[i]) : held[i][k].field \notin dropped

\* The drop glue has dropped a dependent field and none of the fields it
\* borrowed yet.
C3_Witness ==
    /\ rt = "dropping"
    /\ \E i \in dropped :
          /\ held[i] # <<>>
          /\ \A k \in 1..Len(held[i]) : held[i][k].field \notin dropped

----------------------------------------------------------------------------
\* Steps of the token loop, for the properties of single steps.

\* This step is an iteration of the loop of handle_borrows_attr; the token it
\* consumes is tok'.
TokenStep == pc = "tokens" /\ pc' # "fields"

\* This step consumes a field identifier where one may stand.
IdentStep ==
    /\ TokenStep
    /\ tok'.kind = "ident"
    /\ tok'.text # "mut"
    /\ ~waiting_for_comma

\* The fields read so far that are called `name`.
FieldsNamed(name) == {k \in 1..Len(field_info) : field_info[k].name = name}

\* The pass fails in this step with diagnostic e, and emits nothing.
FailsWith(e) == pc' = "failed" /\ diag' = e /\ output' = NoOutput

\* The borrows of every field read so far, and of the field being read, point
\* to fields declared before it.
EdgesPointBackward ==
    /\ \A i \in 1..Len(field_info) :
          \A k \in 1..Len(field_info[i].borrows) :
              field_info[i].borrows[k].index \in 1..(i - 1)
    /\ \A k \in 1..Len(borrows) : borrows[k].index \in 1..Len(field_info)
    /\ pc = "emitted" =>
          \A i \in 1..NumFields : \A t \in DependenciesOf(output.new_params, i) :
              t \in 1..(i - 1)

\* C4: every borrow's target index is strictly less than the index of the
\* field that declares it, and an identifier that names the declaring field,
\* a later field or no field is rejected with the unknown-identifier
\* diagnostic.
C4_DeclaredBeforeUse ==
    /\ []EdgesPointBackward
    /\ [][IdentStep /\ FieldsNamed(tok'.text) = {} => FailsWith(ErrUnknownIdent)]_vars

\* The pass failed on #[borrows(b)] on field b itself.
C4_Witness ==
    /\ pc = "failed"
    /\ diag = ErrUnknownIdent
    /\ Len(field_info) >= 1
    /\ tok = Ident(FieldName(Len(field_info) + 1))

\* The borrows that target field k, as <<borrowing field, position>>.
EdgesTo(k) ==
    UNION {{<<i, j>> : j \in {j \in 1..Len(field_info[i].borrows) :
                                 field_info[i].borrows[j].index = k}}
           : i \in 1..Len(field_info)}

MutableEdgesTo(k) ==
    {e \in EdgesTo(k) : field_info[e[1]].borrows[e[2]].mutable}

\* C5: once the borrows attributes have parsed, a field is Tail iff no borrow
\* targets it, Borrowed iff at least one does and none is mutable, BorrowedMut
\* iff exactly one does and it is mutable.
C5_RolesFromEdges ==
    pc \in {"fields", "emitted"} =>
        \A k \in 1..Len(field_info) :
            LET role == field_info[k].field_type
            IN  /\ role = "Tail" <=> EdgesTo(k) = {}
                /\ role = "Borrowed" <=> EdgesTo(k) # {} /\ MutableEdgesTo(k) = {}
                /\ role = "BorrowedMut" <=>
                      Cardinality(EdgesTo(k)) = 1 /\ MutableEdgesTo(k) = EdgesTo(k)

\* The scenario {a, b, #[borrows(a, mut b)] c} has been accepted.
C5_Witness ==
    /\ pc = "emitted"
    /\ Len(field_info) = 3
    /\ field_info[1].field_type = "Borrowed"
    /\ field_info[2].field_type = "BorrowedMut"
    /\ field_info[3].field_type = "Tail"
    /\ field_info[3].borrows = <<BorrowRequest(1, FALSE), BorrowRequest(2, TRUE)>>

\* C6: a borrow, mutable or not, of a field that is already BorrowedMut fails
\* the pass with "Cannot borrow mutably twice." or "Cannot borrow as
\* immutable ...", and a failed pass has emitted nothing.
C6_BorrowOfMutablyBorrowedFails ==
    /\ [][IdentStep /\ (\E k \in FieldsNamed(tok'.text) :
                           field_info[k].field_type = "BorrowedMut")
          => FailsWith(IF borrow_mut THEN ErrMutTwice ELSE ErrImmAfterMut)]_vars
    /\ [](pc = "failed" => output = NoOutput)

\* #[borrows(mut a, a)]: the pass failed on an immutable borrow of a field the
\* same attribute borrowed mutably.
C6_Witness ==
    /\ pc = "failed"
    /\ diag = ErrImmAfterMut
    /\ \E k \in 1..Len(borrows) :
          /\ borrows[k].mutable
          /\ field_info[borrows[k].index].name = tok.text

\* C7: a mutable borrow of a field that is already Borrowed fails the pass
\* with "Cannot borrow mutably, this field was previously borrowed
\* immutably.", and a failed pass has emitted nothing.
C7_MutableBorrowOfBorrowedFails ==
    /\ [][IdentStep /\ borrow_mut
                    /\ (\E k \in FieldsNamed(tok'.text) :
                           field_info[k].field_type = "Borrowed")
          => FailsWith(ErrMutAfterImm)]_vars
    /\ [](diag = ErrMutAfterImm => pc = "failed" /\ output = NoOutput)

\* #[borrows(a, mut a)]: the pass failed on a mutable borrow of a field the
\* same attribute borrowed immutably.
C7_Witness ==
    /\ pc = "failed"
    /\ diag = ErrMutAfterImm
    /\ \E k \in 1..Len(borrows) :
          /\ ~borrows[k].mutable
          /\ field_info[borrows[k].index].name = tok.text

\* The per-field accessors generated for field f.
UsersOf(f) == SelectSeq(output.users, LAMBDA u : u.field = f)

\* The references to field f or its contents that a sequence of members or
\* of accessor arguments holds.
RefsTo(f, refs) == {k \in 1..Len(refs) : refs[k].field = f}

\* C8: for a BorrowedMut field nothing that hands out a reference to it or to
\* its contents is generated: no per-field accessor, no member of
\* BorrowedFields or BorrowedMutFields, no argument of any accessor.
C8_NoAccessorForBorrowedMut ==
    pc = "emitted" =>
        \A f \in 1..Len(field_info) :
            field_info[f].field_type = "BorrowedMut" =>
                /\ UsersOf(f) = <<>>
                /\ RefsTo(f, output.fields) = {}
                /\ RefsTo(f, output.mut_fields) = {}
                /\ \A a \in 1..Len(Accessors) : RefsTo(f, Accessors[a].gives) = {}

\* Items have been emitted for a struct with a BorrowedMut field.
C8_Witness ==
    /\ pc = "emitted"
    /\ \E f \in 1..Len(field_info) : field_info[f].field_type = "BorrowedMut"
    /\ output.fields # <<>>
    /\ output.mut_fields # <<>>

\* C9: for a Borrowed field exactly one per-field accessor is generated,
\* with_FIELD_contents, which takes &self and hands out a shared reference to
\* the contents; while invocations of it are outstanding a further one is
\* allowed.
C9_BorrowedContentsOnly ==
    /\ pc = "emitted" =>
          \A f \in 1..Len(field_info) :
              field_info[f].field_type = "Borrowed" =>
                  UsersOf(f) = <<Accessor("with_FIELD_contents", f, "shared",
                                          <<RefTo(f, "contents", "shared")>>)>>
    /\ rt = "live" =>
          \A a \in 1..Len(Accessors) :
              Accessors[a].fn = "with_FIELD_contents" /\ outstanding[a] > 0
                  => CanCall(Accessors[a])

\* Two invocations of one with_FIELD_contents are outstanding at once.
C9_Witness ==
    /\ rt = "live"
    /\ \E a \in 1..Len(Accessors) :
          Accessors[a].fn = "with_FIELD_contents" /\ outstanding[a] >= 2

\* C10: with_FIELD (&self, a shared reference to the field) and with_FIELD_mut
\* (&mut self, an exclusive reference to the field) are generated for the Tail
\* fields and for no other field.
C10_TailReadWrite ==
    pc = "emitted" =>
        \A f \in 1..Len(field_info) :
            LET has(acc) == \E k \in 1..Len(output.users) : output.users[k] = acc
                read == Accessor("with_FIELD", f, "shared", <<RefTo(f, "field", "shared")>>)
                write == Accessor("with_FIELD_mut", f, "excl", <<RefTo(f, "field", "excl")>>)
                toField == {k \in 1..Len(output.users) :
                               /\ output.users[k].field = f
                               /\ \E g \in 1..Len(output.users[k].gives) :
                                     output.users[k].gives[g].what = "field"}
            IN  IF field_info[f].field_type = "Tail"
                THEN has(read) /\ has(write) /\ Cardinality(toField) = 2
                ELSE toField = {}

\* Items have been emitted for a struct with two Tail fields and a field that
\* is not a Tail.
C10_Witness ==
    /\ pc = "emitted"
    /\ Cardinality({f \in 1..Len(field_info) : field_info[f].field_type = "Tail"}) = 2
    /\ \E f \in 1..Len(field_info) : field_info[f].field_type # "Tail"

----------------------------------------------------------------------------
\* The members of a sequence of references that equal r.
MembersEqual(refs, r) == {k \in 1..Len(refs) : refs[k] = r}

\* The fields that have a per-field accessor taking the receiver as recv.
FieldsWithUser(recv) ==
    {output.users[k].field : k \in {j \in 1..Len(output.users) :
                                        output.users[j].recv = recv}}

\* C11: BorrowedFields has one member for each Tail field (a shared reference
\* to the field) and each Borrowed field (a shared reference to its contents)
\* and no other member; BorrowedMutFields has one member for each Tail field
\* (an exclusive reference to the field) and no other; these are the fields
\* with a per-field &self, respectively &mut self, accessor, and they are
\* what with and with_mut hand out.
C11_CombinedAggregates ==
    pc = "emitted" =>
        /\ \A f \in 1..Len(field_info) :
              LET role == field_info[f].field_type
              IN  /\ Cardinality(RefsTo(f, output.fields)) =
                        (IF role = "BorrowedMut" THEN 0 ELSE 1)
                  /\ role = "Tail" =>
                        MembersEqual(output.fields, RefTo(f, "field", "shared")) # {}
                  /\ role = "Borrowed" =>
                        MembersEqual(output.fields, RefTo(f, "contents", "shared")) # {}
                  /\ Cardinality(RefsTo(f, output.mut_fields)) =
                        (IF role = "Tail" THEN 1 ELSE 0)
                  /\ role = "Tail" =>
                        MembersEqual(output.mut_fields, RefTo(f, "field", "excl")) # {}
        /\ \A k \in 1..Len(output.fields) : output.fields[k].field \in 1..Len(field_info)
        /\ \A k \in 1..Len(output.mut_fields) :
              output.mut_fields[k].field \in 1..Len(field_info)
        /\ {output.fields[k].field : k \in 1..Len(output.fields)} = FieldsWithUser("shared")
        /\ {output.mut_fields[k].field : k \in 1..Len(output.mut_fields)}
              = FieldsWithUser("excl")
        /\ output.with_all = <<Accessor("with", 0, "shared", output.fields),
                               Accessor("with_mut", 0, "excl", output.mut_fields)>>

\* Items have been emitted for a struct with a Tail, a Borrowed and a
\* BorrowedMut field: BorrowedFields has two members, BorrowedMutFields one.
C11_Witness ==
    /\ pc = "emitted"
    /\ {field_info[f].field_type : f \in 1..Len(field_info)} = FieldType
    /\ Len(output.fields) = 2
    /\ Len(output.mut_fields) = 1

\* The fields whose constructor parameter is the plain value: those that
\* borrow nothing.
HeadFields == {f \in 1..NumFields : output.new_params[f].kind = "Plain"}

\* C12: Heads has exactly the fields that borrow nothing, whatever their
\* role; into_heads moves exactly those out of the struct and nothing else,
\* and it takes the struct by value: once it has started no accessor can be
\* called, and when it returns every field has been moved out or dropped.
C12_HeadsExactlyBorrowNothing ==
    /\ pc = "emitted" =>
          /\ {output.heads[k] : k \in 1..Len(output.heads)}
                = {f \in 1..Len(field_info) : field_info[f].borrows = <<>>}
          /\ Len(output.heads)
                = Cardinality({f \in 1..Len(field_info) : field_info[f].borrows = <<>>})
          /\ HeadFields = {f \in 1..Len(field_info) : field_info[f].borrows = <<>>}
    /\ rt \in {"into_heads", "heads"} =>
          /\ moved_out \subseteq HeadFields
          /\ \A a \in 1..Len(Accessors) : ~CanCall(Accessors[a])
    /\ rt = "heads" =>
          /\ moved_out = HeadFields
          /\ moved_out = {output.heads[k] : k \in 1..Len(output.heads)}
          /\ dropped = (1..NumFields) \ HeadFields

\* into_heads has returned two heads, one that was a Tail (it had with_FIELD)
\* and one that was mutably borrowed (it had no accessor).
C12_Witness ==
    /\ rt = "heads"
    /\ \E f, g \in moved_out :
          /\ UsersOf(f) # <<>>
          /\ UsersOf(f)[1].fn = "with_FIELD"
          /\ UsersOf(g) = <<>>

\* The fields whose value holds a reference into field f.
DependentsOf(f) ==
    {i \in 1..NumFields : \E k \in 1..Len(held[i]) : held[i][k].field = f}

\* C13: into_heads drops every field that borrows something, visiting the
\* fields in reverse declaration order, so a field is dropped or moved into
\* Heads only after every field that borrows it has been dropped.
C13_IntoHeadsDropsDependentsFirst ==
    rt \in {"into_heads", "heads"} =>
        /\ \A f \in dropped \cup moved_out : DependentsOf(f) \subseteq dropped
        /\ \A i \in dropped \cup moved_out :
              \A j \in 1..NumFields : j > i => j \in dropped \cup moved_out
        /\ dropped \cap moved_out = {}
        /\ \A i \in dropped : held[i] # <<>>
        /\ rt = "heads" => dropped = {i \in 1..NumFields : held[i] # <<>>}

\* into_heads has moved a later head out and dropped a field that borrows an
\* earlier head, which is still in the struct.
C13_Witness ==
    /\ rt = "into_heads"
    /\ moved_out # {}
    /\ \E i \in dropped : \E f \in 1..NumFields :
          /\ i \in DependentsOf(f)
          /\ f \notin dropped \cup moved_out

----------------------------------------------------------------------------
\* try_new_or_recover has returned Err, maybe through try_new.
Failed == rt \in {"err", "err_mapped"}

\* The members of the Heads expression of the Err arm that returned.
Recovered == Code[ip].recover

\* C14, as stated: when the builder of field k fails the Heads value holds
\* exactly the fields that borrow nothing and are declared before k.
C14_HeadsDeclaredBeforeFailure ==
    rt = "err" => moved_out = {f \in HeadFields : f < error}

\* C14, amended: when the builder of field k fails the Heads value holds
\* every field that borrows nothing, each once: those declared before k are
\* read back out of the storage they were written to, those declared after
\* k, which were never written, are the constructor's own arguments.
C14_HeadsReadBackOrPassedOn ==
    rt = "err" =>
        /\ {Recovered[h].field : h \in 1..Len(Recovered)} = HeadFields
        /\ Len(Recovered) = Cardinality(HeadFields)
        /\ \A h \in 1..Len(Recovered) :
              /\ Recovered[h].from = "storage" <=> Recovered[h].field < error
              /\ Recovered[h].from = "storage" <=> Recovered[h].field \in written
              /\ Recovered[h].from \in {"storage", "arg"}
        /\ moved_out = HeadFields

\* A builder failed between two heads: one is read back from the storage,
\* the other is passed on from the arguments.
C14_Witness ==
    /\ rt = "err"
    /\ \E g, h \in 1..Len(Recovered) :
          /\ Recovered[g].from = "storage" /\ Recovered[g].field < error
          /\ Recovered[h].from = "arg" /\ Recovered[h].field > error

\* C15: when try_new_or_recover fails at a dependent field, the Err holds
\* the error of that field's builder and all the head fields of the struct,
\* those declared after the failing field included.
C15_AllHeadsRecovered ==
    rt = "err" =>
        /\ error \in (1..NumFields) \ HeadFields
        /\ HeadFields \subseteq moved_out

\* try_new_or_recover failed and returned a head declared after the failing
\* field, which had not been written to the storage.
C15_Witness ==
    /\ rt = "err"
    /\ \E f \in moved_out : f > error /\ f \notin written

\* C16, as stated: when the fallible constructor fails, every field written
\* before the failure that is not returned in Heads has been dropped.
C16_MaterializedReleasedOnFailure ==
    Failed => \A f \in written \ moved_out : f \in dropped

\* C17: in try_new_or_recover and try_new the first Err of a builder ends
\* the construction: the error returned is that builder's, every builder
\* before it had returned a value, exactly the fields declared before it
\* have been written, and no builder after it has been called; if no
\* builder fails the struct returned has every field written.
C17_HaltsAtFirstFailure ==
    /\ error # 0 =>
          /\ Failed
          /\ error = Code[ip].field /\ Code[ip].op = "call"
          /\ written = 1..(error - 1)
          /\ \A j \in 1..NumFields : held[j] # <<>> => j < error
          /\ \A j \in 1..(ip - 1) : Code[j].op = "call" => held[Code[j].field] # <<>>
    /\ Failed => error # 0
    /\ rt = "live" => written = 1..NumFields /\ error = 0

\* The builder of the second dependent field failed after the first had
\* returned its value.
C17_Witness ==
    /\ Failed
    /\ \E j \in 1..NumFields : j < error /\ held[j] # <<>>

----------------------------------------------------------------------------
\* The builder parameters a field's borrows ask for.
ParamsOf(bs) ==
    [k \in 1..Len(bs) |-> [index |-> bs[k].index, mutable |-> bs[k].mutable]]

\* The statements of a constructor body that have operation op on field f.
StmtsOf(code, op, f) == SelectSeq(code, LAMBDA st : st.op = op /\ st.field = f)

\* The kind of reference a borrow asks for.
KindOf(mutable) == IF mutable THEN "excl" ELSE "shared"

\* C18: the builder of a field takes one reference per borrow, to the
\* borrowed fields in the order of the borrows, &mut iff the borrow is mut, in
\* new and in try_new_or_recover; the X_illegal_static_reference made for a
\* field from its role is of the kind every borrow of the field asks for,
\* and these are the references the builder is called with and the field's
\* value holds.
C18_BuilderGetsDeclaredReferences ==
    /\ pc = "emitted" =>
          /\ output.try_params = output.new_params
          /\ \A i \in 1..Len(field_info) :
                LET bs == field_info[i].borrows
                IN  /\ output.new_params[i].params = ParamsOf(bs)
                    /\ \A code \in {output.new, output.try_new_or_recover} :
                          /\ bs = <<>> => StmtsOf(code, "call", i) = <<>>
                          /\ bs # <<>> =>
                                /\ Len(StmtsOf(code, "call", i)) = 1
                                /\ StmtsOf(code, "call", i)[1].args
                                      = [k \in 1..Len(bs) |-> bs[k].index]
                          /\ \A k \in 1..Len(bs) :
                                LET made == StmtsOf(code, "ref", bs[k].index)
                                IN  Len(made) = 1 /\ made[1].mutable = bs[k].mutable
    /\ AtStmt("call") =>
          LET st == Code[ip]
              ps == Params[st.field].params
          IN  /\ Len(st.args) = Len(ps)
              /\ \A k \in 1..Len(ps) :
                    /\ st.args[k] = ps[k].index
                    /\ local_ref[st.args[k]] = KindOf(ps[k].mutable)
    /\ rt \in {"new", "try", "live"} =>
          \A i \in 1..NumFields :
              held[i] # <<>> =>
                  held[i] = [k \in 1..Len(output.new_params[i].params) |->
                                RefTo(output.new_params[i].params[k].index, "contents",
                                      KindOf(output.new_params[i].params[k].mutable))]

\* new is about to call a builder with a shared reference to one field and
\* the exclusive reference to another.
C18_Witness ==
    /\ rt = "new"
    /\ AtStmt("call")
    /\ Len(Code[ip].args) = 2
    /\ {local_ref[Code[ip].args[k]] : k \in 1..2} = {"shared", "excl"}

\* C19: the struct emitted for an accepted definition of n fields has n
\* fields, the field declared at position i (from 1) at position n + 1 - i.
C19_StorageReversesDeclaration ==
    pc = "emitted" =>
        /\ Len(output.actual_struct) = Len(field_info)
        /\ \A i \in 1..Len(field_info) :
              output.actual_struct[Len(field_info) + 1 - i] = i

\* A struct of three fields has been emitted.
C19_Witness ==
    /\ pc = "emitted"
    /\ Len(field_info) = 3
    /\ output.actual_struct = <<3, 2, 1>>

\* A step of the pass changes the role of a field read so far only from Tail
\* to Borrowed or from Tail to BorrowedMut, and loses no field.
RolesOnlyLeaveTail ==
    pc \in {"fields", "tokens"} =>
        \A k \in 1..Len(field_info) :
            /\ k <= Len(field_info')
            /\ field_info'[k].field_type # field_info[k].field_type =>
                  /\ field_info[k].field_type = "Tail"
                  /\ field_info'[k].field_type \in {"Borrowed", "BorrowedMut"}

\* C20: while the fields are read, a step changes the role of a field only
\* from Tail to Borrowed or from Tail to BorrowedMut; a role never goes back
\* to Tail and never changes between Borrowed and BorrowedMut.
C20_RolesMonotone == [][RolesOnlyLeaveTail]_vars

\* Reading #[borrows(a, mut b)] on the third field, where b already borrows
\* a: a stayed Borrowed and b went from Tail to BorrowedMut.
C20_Witness ==
    /\ pc = "tokens"
    /\ Len(field_info) = 2
    /\ field_info[2].borrows = <<BorrowRequest(1, FALSE)>>
    /\ borrows = <<BorrowRequest(1, FALSE), BorrowRequest(2, TRUE)>>
    /\ field_info[1].field_type = "Borrowed"
    /\ field_info[2].field_type = "BorrowedMut"

----------------------------------------------------------------------------
\* This step is the end of the pass over a struct with named fields: the
\* checks at the end of create_actual_struct and the generators.
FinishStep ==
    /\ pc = "fields"
    /\ shape = "named"
    /\ pc' \in {"emitted", "failed"}
    /\ diag' # ErrInvalidSyntax

\* No field read so far has a borrow.
NoBorrows == \A k \in 1..Len(field_info) : field_info[k].borrows = <<>>

\* No field read so far is borrowed.
AllTail == \A k \in 1..Len(field_info) : is_tail(field_info[k].field_type)

\* The pass over a struct of two fields or more ends with the all-tail Error
\* exactly when no field has a borrow.
AllTailErrorIffNoBorrows ==
    FinishStep /\ Len(field_info) >= 2 => (FailsWith(ErrAllTail) <=> NoBorrows)

\* C21: a struct with at least two named fields fails with "Self-referencing
\* struct cannot be made entirely of tail fields" iff no field has a borrow
\* (a field with an empty #[borrows()] has none); between fields, every
\* field is Tail iff no field has a borrow.
C21_AllTailIffNoBorrows ==
    /\ [](pc \in {"fields", "emitted"} => (AllTail <=> NoBorrows))
    /\ [](diag = ErrAllTail =>
              pc = "failed" /\ Len(field_info) >= 2 /\ NoBorrows /\ output = NoOutput)
    /\ [][AllTailErrorIffNoBorrows]_vars

\* The pass over three fields without a borrow has failed.
C21_Witness ==
    /\ pc = "failed"
    /\ diag = ErrAllTail
    /\ Len(field_info) = 3
    /\ NoBorrows

\* The pass over a struct of fewer than two fields ends with the two-fields
\* Error.
TwoFieldsError == FinishStep /\ Len(field_info) < 2 => FailsWith(ErrTwoFields)

\* C22: a struct with fewer than two fields fails with "Self-referencing
\* structs must have at least 2 fields." and nothing is emitted; whatever is
\* emitted is for a struct of two fields or more.
C22_AtLeastTwoFields ==
    /\ [](output # NoOutput => Len(output.actual_struct) >= 2)
    /\ [](pc = "emitted" => Len(field_info) >= 2)
    /\ [](diag = ErrTwoFields =>
              pc = "failed" /\ Len(field_info) < 2 /\ output = NoOutput)
    /\ [][TwoFieldsError]_vars

\* The pass over a struct with one field has failed.
C22_Witness ==
    /\ pc = "failed"
    /\ diag = ErrTwoFields
    /\ Len(field_info) = 1

----------------------------------------------------------------------------
\* After `mut`, the next step of the pass either fails or reads the
\* identifier of a field and pushes a mutable borrow of it; a borrow pushed
\* without a `mut` right before its identifier is immutable.
MarkerModifiesNextIdentifier ==
    /\ pc = "tokens" /\ borrow_mut =>
          \/ pc' = "failed" /\ diag' # NoError /\ output' = NoOutput
          \/ /\ pc' = "tokens"
             /\ tok'.kind = "ident" /\ tok'.text # "mut"
             /\ borrows' = Append(borrows,
                                  BorrowRequest(Position(field_info, tok'.text), TRUE))
             /\ ~borrow_mut'
    /\ pc = "tokens" /\ ~borrow_mut /\ Len(borrows') > Len(borrows) =>
          ~borrows'[Len(borrows')].mutable

\* C23, as stated: in #[borrows(...)] a `mut` must be followed by the
\* identifier it modifies: `mut mut`, `mut ,` and a `mut` at the end of the
\* attribute are rejected with an Error, and a `mut` makes mutable only the
\* borrow of the identifier right after it.
C23_MarkerPrecedesIdentifier == [][MarkerModifiesNextIdentifier]_vars

----------------------------------------------------------------------------
\* The fields of a builder struct are the parameters of its constructor: as
\* many, in the same order, each of the same kind (the value of the field,
\* or a builder function of the field).
SameParameters(names, params) ==
    /\ Len(names) = Len(params)
    /\ \A i \in 1..Len(names) :
          /\ names[i].field = params[i].field
          /\ names[i].kind = params[i].kind
          /\ params[i].field = i
          /\ (params[i].kind = "Plain" <=> field_info[i].borrows = <<>>)

\* C24: building through a builder struct is constructing directly: the
\* builder struct has one field per constructor parameter, of the same kind
\* and in the same order (a plain value for a field without borrows, a
\* builder function otherwise), and build() gives every parameter of the
\* constructor the input of its own field, so the constructor runs on the
\* same inputs whichever way it is called.
C24_BuilderIsConstructor ==
    /\ pc = "emitted" =>
          /\ SameParameters(output.builder, output.new_params)
          /\ SameParameters(output.try_builder, output.try_params)
    /\ Constructing =>
          /\ ctor_args.via \in {"direct", "builder"}
          /\ ctor_args.bound = [i \in 1..NumFields |-> i]

\* try_build_or_recover() of a builder struct with three fields, the last a
\* builder function, has passed them to try_new_or_recover().
C24_Witness ==
    /\ rt = "try"
    /\ ctor_args.via = "builder"
    /\ ctor_args.bound = <<1, 2, 3>>
    /\ AtStmt("uninit")
    /\ output.try_params[3].kind = "TraitBound"

----------------------------------------------------------------------------
\* C25, as stated: the pass over any struct ends in one of two ways: it
\* returns the complete generated code, or it returns an Error (turned into
\* a compile_error) and no generated item; while it runs nothing is emitted,
\* and it never ends any other way, also for a tuple struct, a unit struct
\* or a struct with a const generic parameter.
C25_SucceedsOrFailsWithDiagnostic ==
    /\ pc \in {"fields", "tokens", "emitted", "failed", "compiled"}
    /\ pc \in {"fields", "tokens"} => output = NoOutput /\ diag = NoError
    /\ pc = "emitted" => output.emitted /\ diag = NoError
    /\ pc = "failed" => output = NoOutput /\ diag # NoError

----------------------------------------------------------------------------
\* The issues of a token stream, in source order: every token the loop of
\* handle_borrows_attr rejects, where after a rejected token the loop goes on
\* as if that one Error were not checked for (the token is dropped where that
\* check is not one that can be left out).
RECURSIVE IssuesFrom(_, _, _, _, _, _)
IssuesFrom(fi, bs, bm, wfc, toks, i) ==
    IF i > Len(toks) THEN <<>>
    ELSE LET r == borrows_loop_without(fi, bs, bm, wfc, toks[i], NoError)
             s == borrows_loop_without(fi, bs, bm, wfc, toks[i], r.err)
         IN  IF r.err = NoError
             THEN IssuesFrom(r.field_info, r.borrows, r.borrow_mut,
                             r.waiting_for_comma, toks, i + 1)
             ELSE <<[pos |-> i, err |-> r.err]>>
                  \o (IF s.err = NoError
                      THEN IssuesFrom(s.field_info, s.borrows, s.borrow_mut,
                                      s.waiting_for_comma, toks, i + 1)
                      ELSE IssuesFrom(fi, bs, bm, wfc, toks, i + 1))

\* The issues of the attribute being read: the fields before it had no
\* borrows when handle_borrows_attr was entered.
Issues ==
    LET n == IF pc = "tokens" \/ pc = "failed" THEN Len(field_info)
             ELSE Len(field_info) - 1
    IN  IssuesFrom(PlainFields(n), <<>>, FALSE, FALSE, attr, 1)

\* The Error the pass has returned, with the token it was raised at.
Reported == [pos |-> ntok + 1, err |-> diag]

\* C26, as amended: when the tokens of a borrows attribute hold one issue or
\* several, the pass fails with exactly one Error, that of the first issue
\* in source order, raised at its token; the loop stops there and no later
\* issue is reported; an attribute without issues is accepted.
C26_FirstIssueOnly ==
    /\ pc = "failed" => Issues # <<>> /\ Reported = Issues[1] /\ tok = attr[ntok + 1]
    /\ pc = "tokens" => diag = NoError /\ \A k \in 1..Len(Issues) : Issues[k].pos > ntok
    /\ pc = "fields" => diag = NoError /\ Issues = <<>>

\* The pass has failed at an unknown identifier, and a later token of the
\* attribute is another unknown identifier.
C26_Witness ==
    /\ pc = "failed"
    /\ diag = ErrUnknownIdent
    /\ Len(Issues) >= 2
    /\ \E k \in (ntok + 2)..Len(attr) :
          /\ attr[k] = Ident("z")
          /\ [pos |-> k, err |-> ErrUnknownIdent] \in {Issues[j] : j \in 1..Len(Issues)}

\* C26, as stated: when the tokens of a borrows attribute hold several
\* issues, the failed pass reports every one of them.
C26_AllIssuesReported ==
    pc = "failed" => \A k \in 1..Len(Issues) : Issues[k] = Reported

----------------------------------------------------------------------------
\* The fields some borrow targets whose declared type is not a Box<T>.
BadTargets ==
    {k \in 1..Len(field_info) : EdgesTo(k) # {} /\ field_info[k].typ # "Box<T>"}

\* The pass over two fields or more, one of them borrowed, ends with the
\* Box<T> Error iff chain_hack is on and some target is not a Box<T>.
NotBoxErrorIffBadTarget ==
    FinishStep /\ Len(field_info) >= 2 /\ ~NoBorrows =>
        (FailsWith(ErrNotBox) <=> chain_hack /\ BadTargets # {})

\* C27: with chain_hack, a struct that is otherwise accepted fails with
\* "Borrowed fields must be of type Box<T> when chain_hack is used." iff some
\* field that a borrow targets, mutably or not, is not declared as a Box<T>;
\* the type of a field no borrow targets is not looked at; without
\* chain_hack that Error is never returned.
C27_NotBoxIffBadTarget ==
    /\ [](diag = ErrNotBox =>
              pc = "failed" /\ chain_hack /\ BadTargets # {} /\ output = NoOutput)
    /\ [](pc = "emitted" /\ chain_hack => BadTargets = {})
    /\ [][NotBoxErrorIffBadTarget]_vars

\* With chain_hack the pass has failed on a mutably borrowed Rc<T>, and
\* another Rc<T> field is no target.
C27_Witness ==
    /\ pc = "failed"
    /\ diag = ErrNotBox
    /\ \E k \in BadTargets : MutableEdgesTo(k) # {}
    /\ \E k \in 1..Len(field_info) : EdgesTo(k) = {} /\ field_info[k].typ = "Rc<T>"

\* With chain_hack everything is emitted for a struct whose only Rc<T>
\* field is no target.
C27_Accepted ==
    /\ pc = "emitted"
    /\ chain_hack
    /\ \E k \in 1..Len(field_info) : EdgesTo(k) = {} /\ field_info[k].typ = "Rc<T>"

----------------------------------------------------------------------------
\* A token stream with every lifetime 'this, at any depth of groups, turned
\* into 'static and every other token tree kept.
RECURSIVE ThisLifetimesStatic(_)
ThisLifetimesStatic(input) ==
    [i \in 1..Len(input) |->
        IF /\ input[i] = Ident("this")
           /\ i > 1
           /\ input[i - 1] = Punct("'")
        THEN Ident("static")
        ELSE IF input[i].kind = "group"
        THEN Group(input[i].text, ThisLifetimesStatic(input[i].stream))
        ELSE input[i]]

\* C28, as stated: replace_this_with_static turns every 'this of the struct
\* definition, at any depth of groups, into 'static and emits every other
\* token (field names, type names, other lifetimes) unchanged.
C28_OnlyThisLifetimeRewritten ==
    pc = "rewritten" => static_tokens = ThisLifetimesStatic(def_tokens)

----------------------------------------------------------------------------
\* The places of a constructor body that pass the X_illegal_static_reference
\* of field t to a builder: the statement and the position of the argument.
HandedTo(code, t) ==
    {p \in (1..Len(code)) \X (1..MaxBorrows) :
        /\ code[p[1]].op = "call"
        /\ p[2] <= Len(code[p[1]].args)
        /\ code[p[1]].args[p[2]] = t}

\* In a constructor body the reference to a field is made at most once, before
\* every use, and a &'static mut reference is passed on at exactly one
\* place.
ExclusiveHandedOnce(code) ==
    \A t \in 1..NumFields :
        LET refs == {i \in 1..Len(code) : code[i].op = "ref" /\ code[i].field = t}
        IN  /\ Cardinality(refs) <= 1
            /\ \A p \in HandedTo(code, t) : \E i \in refs : i < p[1]
            /\ \A i \in refs : code[i].mutable => Cardinality(HandedTo(code, t)) = 1

\* C29: in new() and in try_new_or_recover() the &'static mut reference to a
\* BorrowedMut field is made once and passed to exactly one builder, as one
\* argument: a builder is never called with a reference that was moved into
\* an earlier call, nor twice with the same exclusive reference, and at most
\* one field ever holds it; the shared reference to a Borrowed field may be
\* passed to any number of builders.
C29_ExclusiveHandedOnce ==
    /\ pc = "emitted" =>
          /\ ExclusiveHandedOnce(output.new)
          /\ ExclusiveHandedOnce(output.try_new_or_recover)
    /\ AtStmt("call") =>
          \A k \in 1..Len(Code[ip].args) :
              LET t == Code[ip].args[k]
              IN  /\ local_ref[t] \in {"shared", "excl"}
                  /\ local_ref[t] = "excl" =>
                        \A j \in 1..Len(Code[ip].args) : Code[ip].args[j] = t => j = k
    /\ Constructing =>
          \A t \in 1..NumFields :
              /\ local_ref[t] = "moved" => Cardinality(HeldRefs(t, "excl")) = 1
              /\ local_ref[t] # "moved" => HeldRefs(t, "excl") = {}

\* try_new_or_recover() is about to return Ok: the exclusive reference to the
\* first field was moved into the builder of the second, and the shared
\* reference to the second was passed to the builder of the third.
C29_Witness ==
    /\ rt = "try"
    /\ AtStmt("assume_init")
    /\ local_ref = <<"moved", "shared", "none">>
    /\ HeldRefs(2, "shared") # {}

\* new() has passed the shared reference to the first field to two builders.
C29_SharedHandedTwice ==
    /\ rt = "new"
    /\ AtStmt("assume_init")
    /\ local_ref[1] = "shared"
    /\ Cardinality(HandedTo(Code, 1)) = 2
    /\ Cardinality(HeldRefs(1, "shared")) = 2

----------------------------------------------------------------------------
\* C30: when try_new_or_recover() returns Err at a field, every head put in
\* the Heads value has one owner, the Heads value: it is named there once; a
\* head read out of the storage had been written, and the storage
\* (a MaybeUninit) is never dropped, so the value is not dropped with it; a
\* head that had not been written is the constructor's own argument; no
\* field has been dropped.
C30_HeadOwnedOnce ==
    rt = "err" =>
        /\ dropped = {}
        /\ error \notin moved_out
        /\ \A g, h \in 1..Len(Recovered) :
              Recovered[g].field = Recovered[h].field => g = h
        /\ \A h \in 1..Len(Recovered) :
              LET f == Recovered[h].field
              IN  /\ f \in moved_out
                  /\ f \notin dropped
                  /\ Recovered[h].from = "storage" => f \in written
                  /\ Recovered[h].from = "arg" => f \notin written /\ held[f] = <<>>

\* The builder of the last of three fields failed: both heads are read out
\* of the storage.
C30_Witness ==
    /\ rt = "err"
    /\ NumFields = 3
    /\ error = 3
    /\ written = {1, 2}
    /\ moved_out = {1, 2}
    /\ \A h \in 1..Len(Recovered) : Recovered[h].from = "storage"

====
